---- MODULE Spec2Model ----
(***************************************************************************)
(* ARION 1.0 JavaScript reference codec (js/src/arion.js): the decoder     *)
(* loadsArion (tokenizeLines, parseBlock, parseScalar) and the encoder     *)
(* dumpsArion (encodeBlock, encodeScalar).                                 *)
(*                                                                         *)
(* A JavaScript string is a sequence of one-character strings, so that     *)
(* trim, slice, split, indexOf and startsWith are computed, not assumed.   *)
(* A Value is a record with the same fields for every tag:                 *)
(*   tag   "null" | "bool" | "num" | "str" | "obj" | "arr"                  *)
(*   b     the boolean, n the number, s the string,                        *)
(*   kv    the object's entries [k, v] in Object.entries order,            *)
(*   items the array's items.                                              *)
(* A number is sign * m * 10^e with m not divisible by 10 (0 is m = 0,     *)
(* e = 0): exact for the short decimal literals used here, which a double  *)
(* round-trips.                                                            *)
(***************************************************************************)
EXTENDS Integers, Sequences, FiniteSets, TLC

\* ------------------------------------------------------------ strings

Digits == <<"0", "1", "2", "3", "4", "5", "6", "7", "8", "9">>

IsDigit(c) == \E i \in 1..10 : Digits[i] = c

DigitVal(c) == (CHOOSE i \in 1..10 : Digits[i] = c) - 1

\* The white space String.prototype.trim removes (those of the alphabet).
WhiteSpace == {" ", "\t", "\n", "\r"}

RECURSIVE LeadCount(_, _)
\* Number of leading characters of s that satisfy membership in set cs.
LeadCount(s, cs) ==
    IF s = <<>> \/ ~(Head(s) \in cs) THEN 0 ELSE 1 + LeadCount(Tail(s), cs)

RECURSIVE TrailCount(_, _)
TrailCount(s, cs) ==
    IF s = <<>> \/ ~(s[Len(s)] \in cs) THEN 0
    ELSE 1 + TrailCount(SubSeq(s, 1, Len(s) - 1), cs)

\* s.slice(n)
Slice(s, n) == SubSeq(s, n + 1, Len(s))

\* s.trim()
Trim(s) ==
    LET a == LeadCount(s, WhiteSpace)
        t == Slice(s, a)
        b == TrailCount(t, WhiteSpace)
    IN  SubSeq(t, 1, Len(t) - b)

\* s.startsWith(p)
StartsWith(s, p) == Len(s) >= Len(p) /\ SubSeq(s, 1, Len(p)) = p

\* s.indexOf(c), 0-based, -1 when absent
IndexOf(s, c) ==
    IF \E i \in 1..Len(s) : s[i] = c
    THEN (CHOOSE i \in 1..Len(s) : s[i] = c /\ \A j \in 1..(i - 1) : s[j] # c) - 1
    ELSE -1

\* s.includes("\n")
HasNewline(s) == \E i \in 1..Len(s) : s[i] = "\n"

RECURSIVE SplitOn(_, _)
\* s.split(c) for a one-character separator: always at least one piece.
SplitOn(s, c) ==
    LET i == IndexOf(s, c)
    IN  IF i = -1 THEN <<s>>
        ELSE <<SubSeq(s, 1, i)>> \o SplitOn(Slice(s, i + 1), c)

RECURSIVE JoinWith(_, _)
\* pieces.join(c)
JoinWith(pieces, c) ==
    IF pieces = <<>> THEN <<>>
    ELSE IF Len(pieces) = 1 THEN pieces[1]
    ELSE pieces[1] \o <<c>> \o JoinWith(Tail(pieces), c)

\* " ".repeat(n)
Spaces(n) == [i \in 1..n |-> " "]

RECURSIVE Flatten(_)
Flatten(ss) == IF ss = <<>> THEN <<>> ELSE Head(ss) \o Flatten(Tail(ss))

\* ------------------------------------------------------------ numbers

RECURSIVE SkipDigits(_, _)
\* First position >= i of s that holds no digit.
SkipDigits(s, i) ==
    IF i <= Len(s) /\ IsDigit(s[i]) THEN SkipDigits(s, i + 1) ELSE i

DigitAt(s, i) == i <= Len(s) /\ IsDigit(s[i])

\* The JSON number grammar  -? (0 | [1-9][0-9]*) (. [0-9]+)? ([eE] [+-]? [0-9]+)?
\* Positions: [a, b) integer part, [b+1, c) fraction when c > b, [d, z) exponent
\* digits when z > c. ok says the whole of s is one number.
NumberShape(s) ==
    LET a  == IF s # <<>> /\ s[1] = "-" THEN 2 ELSE 1
        okI == DigitAt(s, a)
        b  == IF okI /\ s[a] = "0" THEN a + 1 ELSE SkipDigits(s, a)
        hasF == b <= Len(s) /\ s[b] = "."
        okF == hasF => DigitAt(s, b + 1)
        c  == IF hasF THEN SkipDigits(s, b + 1) ELSE b
        hasE == c <= Len(s) /\ s[c] \in {"e", "E"}
        sg == hasE /\ c + 1 <= Len(s) /\ s[c + 1] \in {"+", "-"}
        d  == IF sg THEN c + 2 ELSE c + 1
        okE == hasE => DigitAt(s, d)
        z  == IF hasE THEN SkipDigits(s, d) ELSE c
    IN  [ok |-> okI /\ okF /\ okE /\ z = Len(s) + 1,
         neg |-> a = 2, a |-> a, b |-> b, c |-> c, d |-> d, z |-> z,
         hasF |-> hasF, hasE |-> hasE,
         expNeg |-> sg /\ s[c + 1] = "-"]

\* JSON.parse skips JSON white space around the value.
JsonTrim(s) == Trim(s)

RECURSIVE DigitsToNat(_)
DigitsToNat(ds) ==
    IF ds = <<>> THEN 0
    ELSE 10 * DigitsToNat(SubSeq(ds, 1, Len(ds) - 1)) + DigitVal(ds[Len(ds)])

RECURSIVE NatToDigits(_)
NatToDigits(n) ==
    IF n < 10 THEN <<Digits[n + 1]>>
    ELSE NatToDigits(n \div 10) \o <<Digits[(n % 10) + 1]>>

RECURSIVE Normalize(_, _, _)
\* Drop the trailing zeros of the mantissa into the exponent.
Normalize(neg, m, e) ==
    IF m = 0 THEN [neg |-> neg, m |-> 0, e |-> 0]
    ELSE IF m % 10 = 0 THEN Normalize(neg, m \div 10, e + 1)
    ELSE [neg |-> neg, m |-> m, e |-> e]

\* JSON.parse(s) for a text that is a number.
ParseNumber(s0) ==
    LET s  == JsonTrim(s0)
        sh == NumberShape(s)
        ip == SubSeq(s, sh.a, sh.b - 1)
        fp == IF sh.hasF THEN SubSeq(s, sh.b + 1, sh.c - 1) ELSE <<>>
        ex == IF sh.hasE THEN DigitsToNat(SubSeq(s, sh.d, sh.z - 1)) ELSE 0
    IN  Normalize(sh.neg, DigitsToNat(ip \o fp),
                  (IF sh.expNeg THEN 0 - ex ELSE ex) - Len(fp))

Zeros(n) == [i \in 1..n |-> "0"]

\* JSON.stringify(x) for a finite number: Number::toString(x), ECMA-262
\* 6.1.6.1.20, with k digits ds and decimal point position n.
StringifyNumber(x) ==
    IF x.m = 0 THEN <<"0">>
    ELSE
      LET ds == NatToDigits(x.m)
          k  == Len(ds)
          n  == k + x.e
          ex == IF n - 1 < 0 THEN <<"-">> \o NatToDigits(1 - n)
                ELSE <<"+">> \o NatToDigits(n - 1)
          body ==
            IF k <= n /\ n <= 21 THEN ds \o Zeros(n - k)
            ELSE IF 0 < n /\ n <= 21
              THEN SubSeq(ds, 1, n) \o <<".">> \o SubSeq(ds, n + 1, k)
            ELSE IF -6 < n /\ n <= 0
              THEN <<"0", ".">> \o Zeros(0 - n) \o ds
            ELSE IF k = 1 THEN ds \o <<"e">> \o ex
            ELSE <<ds[1], ".">> \o SubSeq(ds, 2, k) \o <<"e">> \o ex
      IN  (IF x.neg THEN <<"-">> ELSE <<>>) \o body

\* isNumberLike(s): JSON.parse(s) succeeds and yields a number.
isNumberLike(s) == NumberShape(JsonTrim(s)).ok

\* ------------------------------------------------------------ values

NoNum == [neg |-> FALSE, m |-> 0, e |-> 0]

VNull == [tag |-> "null", b |-> FALSE, n |-> NoNum, s |-> <<>>, kv |-> <<>>, items |-> <<>>]
VBool(b) == [tag |-> "bool", b |-> b, n |-> NoNum, s |-> <<>>, kv |-> <<>>, items |-> <<>>]
VNum(n) == [tag |-> "num", b |-> FALSE, n |-> n, s |-> <<>>, kv |-> <<>>, items |-> <<>>]
VStr(s) == [tag |-> "str", b |-> FALSE, n |-> NoNum, s |-> s, kv |-> <<>>, items |-> <<>>]
VObj(kv) == [tag |-> "obj", b |-> FALSE, n |-> NoNum, s |-> <<>>, kv |-> kv, items |-> <<>>]
VArr(items) == [tag |-> "arr", b |-> FALSE, n |-> NoNum, s |-> <<>>, kv |-> <<>>, items |-> items]

IsCompound(v) == v.tag \in {"obj", "arr"}

\* ------------------------------------------------------------ scalars

STrue == <<"t", "r", "u", "e">>
SFalse == <<"f", "a", "l", "s", "e">>
SNull == <<"n", "u", "l", "l">>

\* parseScalar(raw)
parseScalar(raw) ==
    LET s == Trim(raw)
    IN  IF s = <<>> THEN VStr(<<>>)
        ELSE IF StartsWith(s, <<"'">>) THEN VStr(Slice(s, 1))
        ELSE IF s = STrue THEN VBool(TRUE)
        ELSE IF s = SFalse THEN VBool(FALSE)
        ELSE IF s = SNull THEN VNull
        ELSE IF isNumberLike(s) THEN VNum(ParseNumber(s))
        ELSE VStr(s)

\* encodeScalar without the forced-string marker.
encodeScalarNoMarker(v) ==
    IF v.tag = "bool" THEN (IF v.b THEN STrue ELSE SFalse)
    ELSE IF v.tag = "null" THEN SNull
    ELSE IF v.tag = "num" THEN StringifyNumber(v.n)
    ELSE v.s

\* encodeScalar(v) of dumpsArion
encodeScalar(v) ==
    IF v.tag = "bool" THEN (IF v.b THEN STrue ELSE SFalse)
    ELSE IF v.tag = "null" THEN SNull
    ELSE IF v.tag = "num" THEN StringifyNumber(v.n)
    ELSE IF v.s = STrue \/ v.s = SFalse \/ v.s = SNull \/ isNumberLike(v.s)
      THEN <<"'">> \o v.s
    ELSE v.s

\* ------------------------------------------------------------ tokenizer

\* text.split(/\r?\n/): a "\r" right before a "\n" belongs to the separator.
SplitLines(text) ==
    LET ps == SplitOn(text, "\n")
    IN  [i \in 1..Len(ps) |->
           IF i < Len(ps) /\ ps[i] # <<>> /\ ps[i][Len(ps[i])] = "\r"
           THEN SubSeq(ps[i], 1, Len(ps[i]) - 1) ELSE ps[i]]

HeaderMark == <<"!", "A", "R", "I", "O", "N">>

\* One pass of the loop body of tokenizeLines: the records line adds to result.
TokenizeLine(line) ==
    LET indent == LeadCount(line, {" "})
        stripped == Slice(line, indent)
    IN  IF Trim(line) = <<>> THEN <<>>
        ELSE IF StartsWith(stripped, HeaderMark) THEN <<>>
        ELSE IF StartsWith(stripped, <<"#">>) THEN <<>>
        ELSE <<[indent |-> indent, stripped |-> stripped]>>

\* tokenizeLines(text)
tokenizeLines(text) ==
    LET ls == SplitLines(text)
    IN  Flatten([i \in 1..Len(ls) |-> TokenizeLine(ls[i])])

\* ------------------------------------------------------------ encoder

\* The lines of a multiline string under a bare marker line.
BlockLines(s, indent) ==
    LET segs == SplitOn(s, "\n")
    IN  [i \in 1..Len(segs) |-> Spaces(indent + 2) \o segs[i]]

RECURSIVE encodeBlock(_, _, _)
\* encodeBlock(v, indent, asArray) of dumpsArion: the list of output lines.
encodeBlock(v, indent, asArray) ==
    LET sp == Spaces(indent)
    IN  IF v.tag = "arr" THEN
          Flatten([i \in 1..Len(v.items) |->
            LET item == v.items[i]
            IN  IF IsCompound(item)
                  THEN <<sp \o <<"-">>>> \o encodeBlock(item, indent + 2, item.tag = "arr")
                ELSE IF item.tag = "str" /\ HasNewline(item.s)
                  THEN <<sp \o <<"-">>>> \o BlockLines(item.s, indent)
                ELSE <<sp \o <<"-", " ">> \o encodeScalar(item)>>])
        ELSE IF v.tag = "obj" THEN
          Flatten([i \in 1..Len(v.kv) |->
            LET k == v.kv[i].k
                val == v.kv[i].v
            IN  IF IsCompound(val)
                  THEN <<sp \o <<".">> \o k>> \o encodeBlock(val, indent + 2, val.tag = "arr")
                ELSE IF val.tag = "str" /\ HasNewline(val.s)
                  THEN <<sp \o <<".">> \o k>> \o BlockLines(val.s, indent)
                ELSE <<sp \o <<".">> \o k \o <<" ">> \o encodeScalar(val)>>])
        ELSE <<sp \o <<"-", " ">> \o encodeScalar(v)>>

HeaderLine == <<"!", "A", "R", "I", "O", "N", " ", "1", ".", "0">>

\* dumpsArion(value, header)
dumpsArion(value, header) ==
    LET hd == IF header THEN <<HeaderLine, <<>>>> ELSE <<>>
        ls == hd \o encodeBlock(value, 0, value.tag = "arr")
    IN  JoinWith(ls, "\n") \o <<"\n">>

\* ------------------------------------------------------------ objects

\* A canonical array index ("0", "7", "12"): such own keys come first, in
\* ascending numeric order, in Object.keys / Object.entries. The limit
\* 2^32 - 2 only matters from ten digits on, which no key here has.
IsIndexKey(k) ==
    /\ k # <<>>
    /\ \A i \in 1..Len(k) : IsDigit(k[i])
    /\ (Len(k) = 1 \/ k[1] # "0")
    /\ Len(k) <= 9

\* obj[key] = val on an ordinary object whose entries are kv.
ObjSet(kv, key, val) ==
    IF \E i \in 1..Len(kv) : kv[i].k = key
    THEN [i \in 1..Len(kv) |-> IF kv[i].k = key THEN [k |-> key, v |-> val] ELSE kv[i]]
    ELSE IF IsIndexKey(key)
    THEN LET p == Cardinality({i \in 1..Len(kv) :
                     IsIndexKey(kv[i].k) /\ DigitsToNat(kv[i].k) < DigitsToNat(key)})
         IN  SubSeq(kv, 1, p) \o <<[k |-> key, v |-> val]>> \o SubSeq(kv, p + 1, Len(kv))
    ELSE Append(kv, [k |-> key, v |-> val])

\* ------------------------------------------------------------ decoder state

VARIABLES
    src,        \* what is decoded: a raw text, or a Value that is encoded first
    text,       \* the text handed to loadsArion
    lines,      \* const lines = tokenizeLines(text)
    stack,      \* the active parseBlock calls, innermost last
    pc,         \* "idle" | "start" | "loop" | "done" | "parse"
    result,     \* what loadsArion returned or threw
    rootIndex   \* result.index of the root parseBlock call, -1 before it returns

vars == <<src, text, lines, stack, pc, result, rootIndex>>

NoResult == [kind |-> "none", value |-> VNull, err |-> "none"]
Returned(v) == [kind |-> "value", value |-> v, err |-> "none"]
Thrown(e) == [kind |-> "error", value |-> VNull, err |-> e]

\* A parseBlock(index, currentIndent) call: its locals obj and arr (hasArr
\* is arr !== null), the index it was called with, and where its caller
\* stores the result (ret is "root", "key" with the key, or "item").
NewFrame(index, currentIndent, ret, key) ==
    [index |-> index, currentIndent |-> currentIndent,
     obj |-> <<>>, arr |-> <<>>, hasArr |-> FALSE,
     start |-> index, ret |-> ret, key |-> key]

Top == stack[Len(stack)]

\* lines[index] of the innermost call
Cur == lines[Top.index + 1]

\* The loop condition of parseBlock holds and the line passes the indent test.
InLoop ==
    /\ pc = "loop"
    /\ Top.index < Len(lines)
    /\ Cur.indent >= Top.currentIndent

IsKeyLine(l) == StartsWith(l.stripped, <<".">>)
IsItemLine(l) == StartsWith(l.stripped, <<"-">>)
IsStructural(l) == IsKeyLine(l) \/ IsItemLine(l)

\* const content = stripped.slice(1); const spaceIdx = content.indexOf(" ")
Content(l) == Slice(l.stripped, 1)
SpaceIdx(l) == IndexOf(Content(l), " ")
KeyOf(l) == IF SpaceIdx(l) = -1 THEN Content(l) ELSE SubSeq(Content(l), 1, SpaceIdx(l))
ValueStrOf(l) == Slice(Content(l), SpaceIdx(l) + 1)

\* const tail = stripped.slice(1).trim()
TailOf(l) == Trim(Slice(l.stripped, 1))

\* The look-ahead of a marker line without inline value: no next line, or the
\* next line is not indented deeper.
NoChild(f) ==
    IF f.index + 1 >= Len(lines) THEN TRUE
    ELSE lines[f.index + 2].indent <= lines[f.index + 1].indent

RECURSIVE MultilineEnd(_, _, _)
\* The inner while loop of the multiline branch: the first j (0-based) that is
\* not a non-structural line at exactly childIndent.
MultilineEnd(ls, j, childIndent) ==
    IF j < Len(ls) /\ ls[j + 1].indent = childIndent /\ ~IsStructural(ls[j + 1])
    THEN MultilineEnd(ls, j + 1, childIndent)
    ELSE j

\* obj[key] = parseScalar(valueStr); index++
KeyInlineFrame(f, l) ==
    [f EXCEPT !.obj = ObjSet(f.obj, KeyOf(l), parseScalar(ValueStrOf(l))),
              !.index = f.index + 1]

\* obj[key] = {} without the index++
KeyEmptyFrameStuck(f, l) ==
    [f EXCEPT !.obj = ObjSet(f.obj, KeyOf(l), VObj(<<>>))]

\* obj[key] = {}; index++; continue
KeyEmptyFrame(f, l) ==
    [f EXCEPT !.obj = ObjSet(f.obj, KeyOf(l), VObj(<<>>)),
              !.index = f.index + 1]

\* obj[key] = multiline.join("\n"); index = j
KeyMultilineFrame(f, l, ls) ==
    LET childIndent == ls[f.index + 2].indent
        j == MultilineEnd(ls, f.index + 1, childIndent)
    IN  [f EXCEPT !.obj = ObjSet(f.obj, KeyOf(l),
                     VStr(JoinWith([i \in 1..(j - f.index - 1) |->
                                      ls[f.index + 1 + i].stripped], "\n"))),
                  !.index = j]

\* arr.push(parseScalar(tail)); index++
ItemInlineFrame(f, l) ==
    [f EXCEPT !.hasArr = TRUE,
              !.arr = Append(f.arr, parseScalar(TailOf(l))),
              !.index = f.index + 1]

\* arr.push({}); index++; continue
ItemEmptyFrame(f, l) ==
    [f EXCEPT !.hasArr = TRUE,
              !.arr = Append(f.arr, VObj(<<>>)),
              !.index = f.index + 1]

\* The caller's parseBlock(index + 1, indent + 1)
ChildFrame(f, l, ret) ==
    NewFrame(f.index + 1, l.indent + 1, ret, IF ret = "key" THEN KeyOf(l) ELSE <<>>)

\* The end of parseBlock without the mixed-container check.
BlockResultNoCheck(f) ==
    IF f.hasArr THEN Returned(VArr(f.arr)) ELSE Returned(VObj(f.obj))

\* The end of parseBlock: the array, the mixed-container error, or the object.
BlockResult(f) ==
    IF f.hasArr /\ Len(f.obj) = 0 THEN Returned(VArr(f.arr))
    ELSE IF f.hasArr /\ Len(f.obj) > 0 THEN Thrown("Mixed")
    ELSE Returned(VObj(f.obj))

\* The caller after its nested call returned r (callee frame g):
\* obj[key] = result.value or arr.push(result.value); index = result.index
Resume(f, g, v) ==
    IF g.ret = "key"
    THEN [f EXCEPT !.obj = ObjSet(f.obj, g.key, v), !.index = g.index]
    ELSE [f EXCEPT !.arr = Append(f.arr, v), !.index = g.index]

SetTop(f) == [stack EXCEPT ![Len(stack)] = f]

\* ------------------------------------------------------------ decoder steps

\* loadsArion: lines = tokenizeLines(text); if (lines.length === 0) return null
BeginEmpty ==
    /\ pc = "start"
    /\ tokenizeLines(text) = <<>>
    /\ lines' = <<>>
    /\ result' = Returned(VNull)
    /\ rootIndex' = 0
    /\ pc' = "done"
    /\ UNCHANGED <<src, text, stack>>

\* loadsArion: parseBlock(0, firstIndent)
BeginParse ==
    /\ pc = "start"
    /\ tokenizeLines(text) # <<>>
    /\ lines' = tokenizeLines(text)
    /\ stack' = <<NewFrame(0, lines'[1].indent, "root", <<>>)>>
    /\ pc' = "loop"
    /\ UNCHANGED <<src, text, result, rootIndex>>

KeyInline ==
    /\ InLoop /\ IsKeyLine(Cur) /\ SpaceIdx(Cur) # -1
    /\ stack' = SetTop(KeyInlineFrame(Top, Cur))
    /\ UNCHANGED <<src, text, lines, pc, result, rootIndex>>

KeyEmpty ==
    /\ InLoop /\ IsKeyLine(Cur) /\ SpaceIdx(Cur) = -1
    /\ NoChild(Top)
    /\ stack' = SetTop(KeyEmptyFrame(Top, Cur))
    /\ UNCHANGED <<src, text, lines, pc, result, rootIndex>>

KeyMultiline ==
    /\ InLoop /\ IsKeyLine(Cur) /\ SpaceIdx(Cur) = -1
    /\ ~NoChild(Top)
    /\ ~IsStructural(lines[Top.index + 2])
    /\ stack' = SetTop(KeyMultilineFrame(Top, Cur, lines))
    /\ UNCHANGED <<src, text, lines, pc, result, rootIndex>>

KeyNested ==
    /\ InLoop /\ IsKeyLine(Cur) /\ SpaceIdx(Cur) = -1
    /\ ~NoChild(Top)
    /\ IsStructural(lines[Top.index + 2])
    /\ stack' = Append(stack, ChildFrame(Top, Cur, "key"))
    /\ UNCHANGED <<src, text, lines, pc, result, rootIndex>>

ItemInline ==
    /\ InLoop /\ ~IsKeyLine(Cur) /\ IsItemLine(Cur)
    /\ TailOf(Cur) # <<>>
    /\ stack' = SetTop(ItemInlineFrame(Top, Cur))
    /\ UNCHANGED <<src, text, lines, pc, result, rootIndex>>

ItemEmpty ==
    /\ InLoop /\ ~IsKeyLine(Cur) /\ IsItemLine(Cur)
    /\ TailOf(Cur) = <<>>
    /\ NoChild(Top)
    /\ stack' = SetTop(ItemEmptyFrame(Top, Cur))
    /\ UNCHANGED <<src, text, lines, pc, result, rootIndex>>

ItemNested ==
    /\ InLoop /\ ~IsKeyLine(Cur) /\ IsItemLine(Cur)
    /\ TailOf(Cur) = <<>>
    /\ ~NoChild(Top)
    /\ stack' = Append(SetTop([Top EXCEPT !.hasArr = TRUE]), ChildFrame(Top, Cur, "item"))
    /\ UNCHANGED <<src, text, lines, pc, result, rootIndex>>

\* throw new Error("Invalid ARION line ..."): the whole decode fails
Malformed ==
    /\ InLoop /\ ~IsStructural(Cur)
    /\ result' = Thrown("Invalid")
    /\ stack' = <<>>
    /\ pc' = "done"
    /\ UNCHANGED <<src, text, lines, rootIndex>>

\* The loop of the innermost call is over (end of lines, or a lower indent).
LoopOver == pc = "loop" /\ ~(Top.index < Len(lines) /\ Cur.indent >= Top.currentIndent)

\* throw new Error("Mixed object and array ...")
BlockMixed ==
    /\ LoopOver
    /\ BlockResult(Top).kind = "error"
    /\ result' = BlockResult(Top)
    /\ stack' = <<>>
    /\ pc' = "done"
    /\ UNCHANGED <<src, text, lines, rootIndex>>

\* A nested call returns { index, value } to its caller.
ReturnNested ==
    /\ LoopOver
    /\ BlockResult(Top).kind = "value"
    /\ Len(stack) > 1
    /\ stack' = [SubSeq(stack, 1, Len(stack) - 1) EXCEPT ![Len(stack) - 1] =
                    Resume(stack[Len(stack) - 1], Top, BlockResult(Top).value)]
    /\ UNCHANGED <<src, text, lines, pc, result, rootIndex>>

\* The root call returns: loadsArion returns result.value.
ReturnRoot ==
    /\ LoopOver
    /\ BlockResult(Top).kind = "value"
    /\ Len(stack) = 1
    /\ result' = BlockResult(Top)
    /\ rootIndex' = Top.index
    /\ stack' = <<>>
    /\ pc' = "done"
    /\ UNCHANGED <<src, text, lines>>

Decode ==
    \/ BeginEmpty \/ BeginParse
    \/ KeyInline \/ KeyEmpty \/ KeyMultiline \/ KeyNested
    \/ ItemInline \/ ItemEmpty \/ ItemNested
    \/ Malformed \/ BlockMixed \/ ReturnNested \/ ReturnRoot

\* ------------------------------------------------------------ inputs

MaxLines == 3
MaxNodes == 3
MaxStrLen == 2

SeqsUpTo(S, n) == UNION {[1..k -> S] : k \in 0..n}

\* Raw texts: up to MaxLines lines, each an indent and a content.
Indents == {<<>>, <<" ">>, <<" ", " ">>}
Contents ==
    { <<".", "a">>, <<".", "b", " ", "1">>, <<"-">>, <<"-", " ", "x">>, <<"\t", "x">> }
RawLines == {i \o c : i \in Indents, c \in Contents}

\* Texts with a header, a comment, a blank line, CR LF, repeated keys and
\* array-index keys.
ExtraTexts ==
    { HeaderLine \o <<"\n", "\n", ".", "a", " ", "1", "\n">>,
      <<"#", "c", "\n", ".", "a", "\r", "\n", " ", " ", "-", " ", "1", "\r", "\n", " ", " ", "-", " ", "2">>,
      <<".", "b", " ", "x", "\n", ".", "1", " ", "y", "\n", ".", "0", " ", "z">>,
      <<".", "a", " ", "1", "\n", ".", "a", " ", "2", "\n", " ", "\t", "\n">>,
      <<"-", "\n", " ", "-", "\n", " ", " ", ".", "a", "\n", " ", " ", " ", "x", "\n", " ", " ", " ", "y">> }

RawTexts ==
    {JoinWith(ls, "\n") : ls \in SeqsUpTo(RawLines, MaxLines)} \cup ExtraTexts

Num37 == [neg |-> FALSE, m |-> 37, e |-> 0]
NumNegPi == [neg |-> TRUE, m |-> 314, e |-> -2]

\* The leaves of the encoded Value trees.
LeafStrings ==
    { <<>>, <<"a">>, <<"a", "\n", "b">>, <<"a", "\n", "-", "b">> }
Leaves ==
    {VNull, VBool(TRUE), VNum(NumNegPi)} \cup {VStr(s) : s \in LeafStrings}

Keys == {<<"k">>, <<"b">>, <<"1">>}

\* Key sequences an object can have: distinct keys, array-index keys first.
KeySeqs(n) ==
    {ks \in [1..n -> Keys] :
        /\ \A i, j \in 1..n : i < j => ks[i] # ks[j]
        /\ \A i, j \in 1..n : (i < j /\ IsIndexKey(ks[j])) =>
              (IsIndexKey(ks[i]) /\ DigitsToNat(ks[i]) < DigitsToNat(ks[j]))}

RECURSIVE ValuesOfSize(_), ListsOfSize(_)
\* The Value trees with exactly n nodes.
ValuesOfSize(n) ==
    IF n = 1 THEN Leaves \cup {VObj(<<>>), VArr(<<>>)}
    ELSE {VArr(l) : l \in ListsOfSize(n - 1)}
         \cup UNION {{VObj([i \in 1..Len(l) |-> [k |-> ks[i], v |-> l[i]]]) :
                        ks \in KeySeqs(Len(l))} : l \in ListsOfSize(n - 1)}

\* The sequences of Value trees with n nodes in all.
ListsOfSize(n) ==
    IF n = 0 THEN {<<>>}
    ELSE UNION {{<<v>> \o l : v \in ValuesOfSize(j), l \in ListsOfSize(n - j)} : j \in 1..n}

\* Strings that read as a boolean, null or a numeric literal.
EscStrings ==
    { STrue, SFalse, SNull, <<"3", "7">>, <<"-", "3", ".", "1", "4">>, <<"0">>,
      <<"-", "0">>, <<"1", "e", "5">>, <<"2", "E", "-", "3">>, <<"0", ".", "5">> }

\* Strings with a newline and no segment that begins with "." or "-".
MultiStrings ==
    { <<"a", "\n", "b">>, <<"a", "\n", "b", "\n", "c">>, <<"a", " ", "b", "\n", "3", "7">>,
      <<"a", "\n">> }

KeyK == <<"k">>

OneKey(s) == VObj(<< [k |-> KeyK, v |-> VStr(s)] >>)

Values ==
    UNION {ValuesOfSize(n) : n \in 1..MaxNodes}
    \cup {OneKey(s) : s \in EscStrings \cup MultiStrings}
    \cup {VArr(<<VStr(s)>>) : s \in MultiStrings}
    \cup {VStr(s) : s \in MultiStrings}

ScalarAlphabet == {"a", " ", "'", "1", "-", ".", "e"}
ScalarInputs ==
    {VNull, VBool(TRUE), VBool(FALSE), VNum(NoNum), VNum(Num37), VNum(NumNegPi),
     VNum([neg |-> FALSE, m |-> 1, e |-> 21]), VNum([neg |-> FALSE, m |-> 15, e |-> -8])}
    \cup {VStr(s) : s \in SeqsUpTo(ScalarAlphabet, MaxStrLen) \cup EscStrings}

\* ------------------------------------------------------------ calls

\* A caller hands a raw text to loadsArion.
CallLoads ==
    /\ pc = "idle"
    /\ \E t \in RawTexts : text' = t
    /\ src' = [kind |-> "text", value |-> VNull, header |-> FALSE]
    /\ pc' = "start"
    /\ UNCHANGED <<lines, stack, result, rootIndex>>

\* text = dumpsArion(value, header), then handed to loadsArion
CallDumps ==
    /\ pc = "idle"
    /\ \E v \in Values, h \in BOOLEAN :
          /\ src' = [kind |-> "value", value |-> v, header |-> h]
          /\ text' = dumpsArion(v, h)
    /\ pc' = "start"
    /\ UNCHANGED <<lines, stack, result, rootIndex>>

\* raw = encodeScalar(x)
FormatScalar ==
    /\ pc = "idle"
    /\ \E x \in ScalarInputs :
          /\ src' = [kind |-> "scalar", value |-> x, header |-> FALSE]
          /\ text' = encodeScalar(x)
    /\ pc' = "parse"
    /\ UNCHANGED <<lines, stack, result, rootIndex>>

\* parseScalar(raw)
ResolveScalar ==
    /\ pc = "parse"
    /\ result' = Returned(parseScalar(text))
    /\ pc' = "done"
    /\ UNCHANGED <<src, text, lines, stack, rootIndex>>

\* ------------------------------------------------------------ specifications

\* Nothing has been called yet.
Init ==
    /\ src = [kind |-> "none", value |-> VNull, header |-> FALSE]
    /\ text = <<>>
    /\ lines = <<>>
    /\ stack = <<>>
    /\ result = NoResult
    /\ rootIndex = -1
    /\ pc = "idle"

\* loadsArion(text) on a raw text
Next == CallLoads \/ Decode

Spec == Init /\ [][Next]_vars

\* loadsArion(dumpsArion(value, header))
NextCodec == CallDumps \/ Decode

SpecCodec == Init /\ [][NextCodec]_vars

\* parseScalar(encodeScalar(x))
NextScalar == FormatScalar \/ ResolveScalar

SpecScalar == Init /\ [][NextScalar]_vars

\* ------------------------------------------------------------ properties

Done == pc = "done"

FromValue == src.kind = "value"

\* C1 (round-trip law): once loadsArion(dumpsArion(v)) is over, it returned a
\* value structurally equal to v, object key order included, for every
\* acyclic Value tree v: scalars, empty containers and a scalar root too.
C1_RoundTrip ==
    (Done /\ FromValue) => (result.kind = "value" /\ result.value = src.value)

\* The text of a JSON numeric literal, with no white space around it.
IsNumericLiteral(s) == NumberShape(s).ok

\* The encoded Value is {k: s} with s "true", "false", "null" or a numeric literal.
EscapeCase ==
    /\ FromValue
    /\ src.value.tag = "obj"
    /\ Len(src.value.kv) = 1
    /\ src.value.kv[1].k = KeyK
    /\ src.value.kv[1].v.tag = "str"
    /\ \/ src.value.kv[1].v.s \in {STrue, SFalse, SNull}
       \/ IsNumericLiteral(src.value.kv[1].v.s)

\* C2 (string-escape law): for s equal to "true", "false", "null" or a
\* numeric literal, the line dumpsArion emits for {k: s} is ".k '" followed by
\* s, and decoding gives back {k: s} with s a string.
C2_StringEscape ==
    EscapeCase =>
      /\ (pc # "idle") =>
            \E i \in 1..Len(SplitOn(text, "\n")) :
                SplitOn(text, "\n")[i] = <<".", "k", " ", "'">> \o src.value.kv[1].v.s
      /\ Done =>
            /\ result.kind = "value"
            /\ result.value.tag = "obj"
            /\ Len(result.value.kv) = 1
            /\ result.value.kv[1].k = KeyK
            /\ result.value.kv[1].v = VStr(src.value.kv[1].v.s)

\* C2 witness: {k: "-3.14"} was encoded and decoded back to the string.
C2_Witness ==
    /\ EscapeCase /\ Done
    /\ src.value.kv[1].v.s = <<"-", "3", ".", "1", "4">>
    /\ result.kind = "value"
    /\ result.value = src.value

\* No segment of s begins with "." or "-".
NoStructuralSegment(s) ==
    \A i \in 1..Len(SplitOn(s, "\n")) :
        LET seg == SplitOn(s, "\n")[i]
        IN  ~(StartsWith(seg, <<".">>) \/ StartsWith(seg, <<"-">>))

\* The encoded Value holds one multiline string, as the value of key k or as
\* the only item of an array.
MultilineCase ==
    /\ FromValue
    /\ \/ /\ src.value.tag = "obj" /\ Len(src.value.kv) = 1
          /\ src.value.kv[1].v.tag = "str"
          /\ HasNewline(src.value.kv[1].v.s)
          /\ NoStructuralSegment(src.value.kv[1].v.s)
       \/ /\ src.value.tag = "arr" /\ Len(src.value.items) = 1
          /\ src.value.items[1].tag = "str"
          /\ HasNewline(src.value.items[1].s)
          /\ NoStructuralSegment(src.value.items[1].s)

\* C3 (multiline law): a string with a newline and no segment that begins
\* with "." or "-", held as an object value or as an array item, comes back
\* from encode then decode with the same segments in the same number and order.
C3_Multiline ==
    (MultilineCase /\ Done) => (result.kind = "value" /\ result.value = src.value)

\* Some line of t has a tab in its leading white space.
HasTabIndent(t) ==
    \E i \in 1..Len(SplitLines(t)) :
        LET line == SplitLines(t)[i]
        IN  \E j \in 1..LeadCount(line, {" ", "\t"}) : line[j] = "\t"

\* C4 (tab rejection): loadsArion fails on every text that has a line with a
\* tab in its leading white space; it never returns a value for such a text.
C4_TabRejected ==
    (Done /\ HasTabIndent(text)) => result.kind = "error"

\* Some active parseBlock call has consumed both an object-key line and an
\* array-item line.
MixedOpen ==
    \E i \in 1..Len(stack) : stack[i].hasArr /\ Len(stack[i].obj) > 0

\* Every line has the same indent (so all of them are lines of the root
\* block), and there is a key line and an item line among them.
OneBlockMixed ==
    /\ \A i \in 1..Len(lines) : lines[i].indent = lines[1].indent
    /\ \E i \in 1..Len(lines) : IsKeyLine(lines[i])
    /\ \E i \in 1..Len(lines) : IsItemLine(lines[i])

EndsWithOneNewline(t) ==
    /\ Len(t) >= 1
    /\ t[Len(t)] = "\n"
    /\ (Len(t) >= 2) => t[Len(t) - 1] # "\n"

\* C6: for every Value and both header settings, the text dumpsArion returns
\* ends with exactly one newline.
C6_OneTrailingNewline ==
    (FromValue /\ pc # "idle") => EndsWithOneNewline(text)

\* C7: in a nested block, the indent of the first child line is the
\* threshold: a line with a lower indent is not taken as a member of the block.
C7_FirstChildThreshold ==
    ~(/\ InLoop
      /\ Len(stack) > 1
      /\ Cur.indent < lines[Top.start + 1].indent)

\* C8: parseScalar(encodeScalar(x)) = x, type included, for null, booleans,
\* numbers and every string without a newline.
C8_ScalarInverse ==
    (Done /\ src.kind = "scalar") => result = Returned(src.value)

\* C9 (no silent truncation): when loadsArion returns a value, the root
\* parseBlock call consumed every tokenized line.
C9_AllLinesConsumed ==
    (Done /\ src.kind = "text" /\ result.kind = "value") => rootIndex = Len(lines)

\* One step of the decoder moves the cursor forward: a loop iteration raises
\* the index of its call, a nested call starts at the next line, and a caller
\* resumes at a higher index than the one it called at.
Progress ==
    (pc = "loop" /\ pc' = "loop") =>
        IF Len(stack') = Len(stack) THEN Top'.index > Top.index
        ELSE IF Len(stack') > Len(stack) THEN stack'[Len(stack')].index = Top.index + 1
        ELSE stack'[Len(stack')].index > stack[Len(stack')].index

\* A natural number that bounds the steps parseBlock has left: the lines
\* after the cursor, weighted above the depth of the calls.
Variant ==
    IF pc = "loop"
    THEN 1 + Len(stack) + (Len(lines) + 1) * (Len(lines) - Top.index)
    ELSE 0

\* C10 (progress and termination): every step of parseBlock that neither ends
\* the block nor throws strictly increases the line index, no index exceeds
\* the number of lines, and loadsArion terminates: each step of the decoder
\* lowers a natural-number variant, which is 0 once a value is returned or an
\* error thrown.
C10_ProgressTermination ==
    /\ [](\A i \in 1..Len(stack) : stack[i].index <= Len(lines))
    /\ [][Progress]_vars
    /\ [][(pc = "loop") => (Variant' < Variant /\ Variant' >= 0)]_vars

\* C10 witness: a nested call that has consumed a line of its own, the caller
\* waiting at an earlier line.
C10_Witness ==
    /\ pc = "loop"
    /\ Len(stack) = 2
    /\ Top.index > Top.start
    /\ stack[1].index < Top.start

====
